---- MODULE Spec2Model ----
(***************************************************************************)
(* Model of the bencode codec of src/src/lib.rs.                           *)
(*                                                                         *)
(* A byte is a one-token string; a byte sequence (Vec<u8>, &[u8], the      *)
(* remaining items of the Peekable stream) is a TLA+ sequence of bytes.    *)
(* The decoder functions take the stream (the bytes not yet consumed) and  *)
(* return a result that carries the stream as they leave it.               *)
(***************************************************************************)
EXTENDS Integers, Sequences, FiniteSets, TLC

(***************************************************************************)
(* Bytes.  ByteOrder lists the bytes the model uses in ascending numeric   *)
(* order; "0xFF" stands for the byte 255, the one non-ASCII byte.          *)
(***************************************************************************)
ByteOrder ==
    << "-", "0", "1", "2", "3", "4", "5", "6", "7", "8", "9", ":", "?",
       "a", "b", "d", "e", "h", "i", "l", "m", "p", "s", "x", "0xFF" >>

Ord(b) == CHOOSE n \in 1..Len(ByteOrder) : ByteOrder[n] = b

Min(a, b) == IF a < b THEN a ELSE b

\* Ordering of Vec<u8> (key < prev_key): lexicographic on the byte values.
RECURSIVE VecLess(_, _)
VecLess(a, b) ==
    IF b = << >> THEN FALSE
    ELSE IF a = << >> THEN TRUE
    ELSE IF Head(a) = Head(b) THEN VecLess(Tail(a), Tail(b))
    ELSE Ord(Head(a)) < Ord(Head(b))

(***************************************************************************)
(* enum Bencode                                                            *)
(***************************************************************************)
Integer(buf) == [kind |-> "Integer", val |-> buf]
Bytes(buf)   == [kind |-> "Bytes", val |-> buf]
Array(items) == [kind |-> "Array", val |-> items]
\* The BTreeMap is the sequence of its <<key, value>> entries in ascending
\* key order, one entry per key.
Object(map)  == [kind |-> "Object", val |-> map]

\* BTreeMap::insert: replaces the value of a key already present.
RECURSIVE BTreeInsert(_, _, _)
BTreeInsert(map, key, value) ==
    IF map = << >> THEN << <<key, value>> >>
    ELSE IF Head(map)[1] = key THEN << <<key, value>> >> \o Tail(map)
    ELSE IF VecLess(key, Head(map)[1]) THEN << <<key, value>> >> \o map
    ELSE << Head(map) >> \o BTreeInsert(Tail(map), key, value)

(***************************************************************************)
(* BencodeResult<T>, with the stream as the function leaves it.  A failed  *)
(* assert_eq!/expect/unwrap is the outcome "Panic".                        *)
(***************************************************************************)
Ok(v, stream)    == [status |-> "Ok", val |-> v, stream |-> stream]
Err(e, stream)   == [status |-> "Err", val |-> e, stream |-> stream]
Panic(m, stream) == [status |-> "Panic", val |-> m, stream |-> stream]

is_digit(val) == Ord("0") <= Ord(val) /\ Ord(val) <= Ord("9")

\* The loop of bdecode_extract_integer, buf being the digits pushed so far.
RECURSIVE extract_integer_loop(_, _)
extract_integer_loop(stream, buf) ==
    IF stream = << >> THEN Err("Truncated", stream)
    ELSE IF is_digit(Head(stream))
         THEN extract_integer_loop(Tail(stream), Append(buf, Head(stream)))
         ELSE Ok(buf, stream)

bdecode_extract_integer(stream) == extract_integer_loop(stream, << >>)

bdecode_integer(stream) ==
    IF stream = << >> THEN Err("Truncated", stream)
    ELSE IF Head(stream) # "i" THEN Err("InvalidCharacter", Tail(stream))
    ELSE LET r == bdecode_extract_integer(Tail(stream)) IN
         IF r.status # "Ok" THEN r
         ELSE IF r.stream = << >> THEN Err("Truncated", r.stream)
         ELSE IF Head(r.stream) = "e" THEN Ok(r.val, Tail(r.stream))
         ELSE Err("Truncated", Tail(r.stream))

(***************************************************************************)
(* std::str::from_utf8 and str::parse::<usize> on the digit buffer.        *)
(***************************************************************************)
\* All bytes of ByteOrder but 255 are ASCII, and 255 occurs in no UTF-8 text.
from_utf8_ok(buf) == \A n \in 1..Len(buf) : buf[n] # "0xFF"

\* usize::MAX of a 64-bit target, 2^64 - 1, as decimal digits.
UsizeMaxDigits ==
    << "1", "8", "4", "4", "6", "7", "4", "4", "0", "7",
       "3", "7", "0", "9", "5", "5", "1", "6", "1", "5" >>

RECURSIVE StripZeros(_)
StripZeros(buf) ==
    IF buf # << >> /\ Head(buf) = "0" THEN StripZeros(Tail(buf)) ELSE buf

\* parse::<usize>() fails on the empty string, on a byte that is no digit,
\* and on a number above usize::MAX.
parse_usize_ok(buf) ==
    /\ buf # << >>
    /\ \A n \in 1..Len(buf) : is_digit(buf[n])
    /\ LET d == StripZeros(buf) IN
       \/ Len(d) < Len(UsizeMaxDigits)
       \/ Len(d) = Len(UsizeMaxDigits) /\ ~ VecLess(UsizeMaxDigits, d)

\* The number a digit run denotes, saturated at cap.
RECURSIVE DecimalValue(_, _, _)
DecimalValue(buf, acc, cap) ==
    IF buf = << >> THEN acc
    ELSE DecimalValue(Tail(buf),
                      Min(acc * 10 + (Ord(Head(buf)) - Ord("0")), cap), cap)

\* stream.take(length).collect(): the first length items, or all of them when
\* the stream is shorter; length reaches take() saturated at the number of
\* items left, which is all that take() can tell apart.
take(stream, intbuf) ==
    SubSeq(stream, 1, DecimalValue(intbuf, 0, Len(stream)))

bdecode_bytea_short_read_error(stream) ==
    LET r == bdecode_extract_integer(stream) IN
    IF r.status # "Ok" THEN r
    ELSE IF ~ from_utf8_ok(r.val)
         THEN Panic("bdecode_extract_integer failed to hold invariant", r.stream)
    ELSE IF ~ parse_usize_ok(r.val) THEN Err("InvalidLength", r.stream)
    ELSE IF r.stream = << >> THEN Err("Truncated", r.stream)
    ELSE IF Head(r.stream) # ":" THEN Err("InvalidCharacter", Tail(r.stream))
    ELSE LET payload == take(Tail(r.stream), r.val) IN
         IF DecimalValue(r.val, 0, Len(r.stream)) > Len(payload)
         THEN Err("Truncated", << >>)
         ELSE Ok(payload,
                 SubSeq(r.stream, Len(payload) + 2, Len(r.stream)))

bdecode_bytea(stream) ==
    LET r == bdecode_extract_integer(stream) IN
    IF r.status # "Ok" THEN r
    ELSE IF ~ from_utf8_ok(r.val)
         THEN Panic("bdecode_extract_integer failed to hold invariant", r.stream)
    ELSE IF ~ parse_usize_ok(r.val) THEN Err("InvalidLength", r.stream)
    ELSE IF r.stream = << >> THEN Err("Truncated", r.stream)
    ELSE IF Head(r.stream) # ":" THEN Err("InvalidCharacter", Tail(r.stream))
    ELSE LET payload == take(Tail(r.stream), r.val) IN
         Ok(payload, SubSeq(r.stream, Len(payload) + 2, Len(r.stream)))

(***************************************************************************)
(* The recursive productions.                                              *)
(***************************************************************************)
RECURSIVE bdecode(_)
RECURSIVE list_loop(_, _)
RECURSIVE dict_loop(_, _, _)

\* The loop of bdecode_list, output being the items pushed so far.
list_loop(stream, output) ==
    IF stream = << >> THEN Err("Truncated", stream)
    ELSE IF Head(stream) = "e" THEN Ok(output, Tail(stream))
    ELSE LET r == bdecode(stream) IN
         IF r.status # "Ok" THEN r
         ELSE list_loop(r.stream, Append(output, r.val))

bdecode_list(stream) ==
    IF stream = << >> \/ Head(stream) # "l"
    THEN Panic("assert_eq!(Some(b'l'), stream.next())",
               IF stream = << >> THEN stream ELSE Tail(stream))
    ELSE list_loop(Tail(stream), << >>)

\* The loop of bdecode_dict.  On a peeked 'e' it returns without consuming it.
dict_loop(stream, prev_key, output) ==
    IF stream = << >> THEN Err("Truncated", stream)
    ELSE IF Head(stream) = "e" THEN Ok(output, stream)
    ELSE LET k == bdecode_bytea(stream) IN
         IF k.status # "Ok" THEN k
         ELSE IF VecLess(k.val, prev_key) THEN Err("OutOfOrderKey", k.stream)
         ELSE LET r == bdecode(k.stream) IN
              IF r.status # "Ok" THEN r
              ELSE dict_loop(r.stream, k.val,
                             BTreeInsert(output, k.val, r.val))

bdecode_dict(stream) ==
    IF stream = << >> \/ Head(stream) # "d"
    THEN Panic("assert_eq!(Some(b'd'), stream.next())",
               IF stream = << >> THEN stream ELSE Tail(stream))
    ELSE dict_loop(Tail(stream), << >>, << >>)

\* Wrap an Ok payload in its Bencode variant; errors pass through (try!).
Wrap(variant, r) ==
    IF r.status = "Ok" THEN Ok([kind |-> variant, val |-> r.val], r.stream)
    ELSE r

iter_bdecode_swapped(stream) ==
    IF stream = << >> THEN Err("InvalidCharacter", stream)
    ELSE IF Head(stream) = "i" THEN Wrap("Integer", bdecode_integer(stream))
    ELSE IF Head(stream) = "l" THEN Wrap("Object", bdecode_dict(stream))
    ELSE IF Head(stream) = "d" THEN Wrap("Array", bdecode_list(stream))
    ELSE IF is_digit(Head(stream)) THEN Wrap("Bytes", bdecode_bytea(stream))
    ELSE Err("InvalidCharacter", stream)

iter_bdecode_bytea_fallback(stream) ==
    IF stream = << >> THEN Err("InvalidCharacter", stream)
    ELSE IF Head(stream) = "i" THEN Wrap("Integer", bdecode_integer(stream))
    ELSE IF Head(stream) = "l" THEN Wrap("Array", bdecode_list(stream))
    ELSE IF Head(stream) = "d" THEN Wrap("Object", bdecode_dict(stream))
    ELSE Wrap("Bytes", bdecode_bytea(stream))

iter_bdecode(stream) ==
    IF stream = << >> THEN Err("InvalidCharacter", stream)
    ELSE IF Head(stream) = "i" THEN Wrap("Integer", bdecode_integer(stream))
    ELSE IF Head(stream) = "l" THEN Wrap("Array", bdecode_list(stream))
    ELSE IF Head(stream) = "d" THEN Wrap("Object", bdecode_dict(stream))
    ELSE IF is_digit(Head(stream)) THEN Wrap("Bytes", bdecode_bytea(stream))
    ELSE Err("InvalidCharacter", stream)

\* bdecode is called by bdecode_list, bdecode_dict and the test but has no
\* definition in lib.rs; it is the dispatcher, the one function of that
\* signature that the productions can recurse through.
bdecode(stream) == iter_bdecode(stream)

(***************************************************************************)
(* The encoder, writing to a Vec<u8> (a sink that never fails).            *)
(***************************************************************************)
\* write!(writer, "{}", n): the decimal digits of n.
RECURSIVE ToDecimal(_)
ToDecimal(n) ==
    IF n < 10 THEN << ByteOrder[Ord("0") + n] >>
    ELSE ToDecimal(n \div 10) \o << ByteOrder[Ord("0") + (n % 10)] >>

bencode_bytea(bytea) == ToDecimal(Len(bytea)) \o << ":" >> \o bytea

RECURSIVE bencode(_)
RECURSIVE bencode_items(_)
RECURSIVE bencode_entries(_)

\* for item in items.iter() { bencode(item, writer) }
bencode_items(items) ==
    IF items = << >> THEN << >>
    ELSE bencode(Head(items)) \o bencode_items(Tail(items))

\* for (key, value) in map.iter() { bencode_bytea(key); bencode(value) }
bencode_entries(map) ==
    IF map = << >> THEN << >>
    ELSE bencode_bytea(Head(map)[1]) \o bencode(Head(map)[2])
         \o bencode_entries(Tail(map))

bencode(document) ==
    CASE document.kind = "Integer" -> << "i" >> \o document.val \o << "e" >>
      [] document.kind = "Bytes"   -> bencode_bytea(document.val)
      [] document.kind = "Array"   ->
            << "l" >> \o bencode_items(document.val) \o << "e" >>
      [] document.kind = "Object"  ->
            << "d" >> \o bencode_entries(document.val) \o << "e" >>

(***************************************************************************)
(* Inputs.  The bounds of the model and the sets the inputs are drawn      *)
(* from.                                                                   *)
(***************************************************************************)
\* Most items of the outermost Array, most entries of the outermost dict.
MaxItems == 2
\* Longest input drawn from all byte strings over RawAlphabet.
MaxRawLen == 3

SeqsUpTo(S, n) == UNION { [1..k -> S] : k \in 0..n }

IntegerPayloads == { << "4", "2" >> }
BytesPayloads   == { << "e", "h" >> }
Keys            == { << "a" >>, << "b" >> }

Leaves ==
    { Integer(b) : b \in IntegerPayloads } \cup { Bytes(b) : b \in BytesPayloads }

\* Leaves, the empty values and the containers of one leaf.
Small ==
    Leaves
    \cup { Bytes(<< >>), Array(<< >>), Object(<< >>) }
    \cup { Array(<< x >>) : x \in Leaves }
    \cup { Object(<< <<k, x>> >>) : k \in Keys, x \in Leaves }

\* Key/value sequences in any order, as a dict's text may list them.
EntrySeqs == SeqsUpTo(Keys \X Small, MaxItems)

\* The map built by inserting the entries one after the other.
RECURSIVE FromEntries(_, _)
FromEntries(entries, map) ==
    IF entries = << >> THEN map
    ELSE FromEntries(Tail(entries),
                     BTreeInsert(map, Head(entries)[1], Head(entries)[2]))

Values ==
    Small
    \cup { Array(s) : s \in SeqsUpTo(Small, MaxItems) }
    \cup { Object(FromEntries(e, << >>)) : e \in EntrySeqs }

\* The text of a dict that lists the entries in the order given.
DictText(entries) == << "d" >> \o bencode_entries(entries) \o << "e" >>

Tails == { << >>, << "e" >>, << "1", ":" >> }

ProperPrefixes(d) == { SubSeq(d, 1, n) : n \in 1..(Len(d) - 1) }

PrefixDocs == UNION { ProperPrefixes(bencode(v)) : v \in Values }

RawAlphabet == { "-", "0", "1", ":", "d", "e", "i", "l", "x", "0xFF" }

RawDocs == SeqsUpTo(RawAlphabet, MaxRawLen)

\* The documents of the test it_works and of the interface description.
ItWorks == << "d", "1", ":", "a", "3", ":", "e", "h", "?", "1", ":", "b", "l", "3", ":", "b", "e", "e", "e", "e" >>

Examples ==
    { ItWorks,
      << "l", "4", ":", "s", "p", "a", "m", "i", "4", "2", "e", "e" >>,
      << "3", ":", "a", "b" >>,
      << "0", "3", ":", "a", "b", "h", "e" >>,
      << "i", "4", "2" >>,
      << "i", "4", "x", "e" >>,
      << "-", "3", ":", "a", "b", "e" >>,
      << "x", ":", "a", "b", "e" >>,
      << "d", "-", "3", ":", "a", "b", "e", "e" >>,
      << "d", "x", ":", "a", "b", "e", "e" >>,
      << "1", "8", "4", "4", "6", "7", "4", "4", "0", "7", "3", "7", "0", "9", "5", "5", "1", "6", "1", "5", ":", "a", "b" >>,
      << "1", "8", "4", "4", "6", "7", "4", "4", "0", "7", "3", "7", "0", "9", "5", "5", "1", "6", "1", "6", ":", "a", "b" >>,
      << "0", "9", "9", "9", "9", "9", "9", "9", "9", "9", "9", "9", "9", "9", "9", "9", "9", "9", "9", "9", "9", ":", "a", "b" >> }

(***************************************************************************)
(* The state machine: the harness of it_works (decode a document, encode   *)
(* the result) and its converse (encode a value, decode the bytes).        *)
(***************************************************************************)
VARIABLES
    origin,        \* how the input was drawn (history, never read by the code)
    document,      \* the bytes given to the decoder
    peekable,      \* the bytes of the stream not yet consumed
    result,        \* the outcome of bdecode
    reserialized,  \* the bytes written by bencode
    pc

vars == << origin, document, peekable, result, reserialized, pc >>

NoResult == [status |-> "None"]

Origins ==
    { [kind |-> "document", value |-> v, tail |-> t] : v \in Values, t \in Tails }
    \cup { [kind |-> "dict", entries |-> e] : e \in EntrySeqs }
    \cup { [kind |-> "prefix", text |-> d] : d \in PrefixDocs }
    \cup { [kind |-> "raw", text |-> d] : d \in RawDocs \cup Examples }
    \cup { [kind |-> "value", value |-> v] : v \in Values }

TextOf(o) ==
    CASE o.kind = "document" -> bencode(o.value) \o o.tail
      [] o.kind = "dict"     -> DictText(o.entries)
      [] o.kind = "prefix"   -> o.text
      [] o.kind = "raw"      -> o.text
      [] o.kind = "value"    -> << >>

Init ==
    /\ origin \in Origins
    /\ document = TextOf(origin)
    /\ peekable = document
    /\ result = NoResult
    /\ reserialized = << >>
    /\ pc = IF origin.kind = "value" THEN "serialize" ELSE "decode"

\* bencode(&value, &mut bytes), then the bytes become the decoder's input.
Serialize ==
    /\ pc = "serialize"
    /\ reserialized' = bencode(origin.value)
    /\ document' = reserialized'
    /\ peekable' = reserialized'
    /\ pc' = "decode"
    /\ UNCHANGED << origin, result >>

\* let result = bdecode(&mut peekable)
Decode ==
    /\ pc = "decode"
    /\ LET r == bdecode(peekable) IN
       /\ result' = [status |-> r.status, val |-> r.val]
       /\ peekable' = r.stream
       /\ pc' = IF origin.kind # "value" /\ r.status = "Ok"
                THEN "reserialize" ELSE "done"
    /\ UNCHANGED << origin, document, reserialized >>

\* bencode(&result, &mut reserialized)
Reserialize ==
    /\ pc = "reserialize"
    /\ reserialized' = bencode(result.val)
    /\ pc' = "done"
    /\ UNCHANGED << origin, document, peekable, result >>

Next == Serialize \/ Decode \/ Reserialize

Spec == Init /\ [][Next]_vars

(***************************************************************************)
(* Vocabulary of the properties.                                           *)
(***************************************************************************)
Digits == << "0", "1", "2", "3", "4", "5", "6", "7", "8", "9" >>

IsDigit(b) == \E n \in 1..Len(Digits) : Digits[n] = b

\* The bytes that select a production at a value-start position.
IsStart(b) == b \in { "i", "l", "d" } \/ IsDigit(b)

\* Letters that are neither digits nor production letters.
PlainLetters == { "a", "b", "e", "h", "m", "p", "s", "x" }

\* The maximal run of ASCII digits at the front of s.
RECURSIVE DigitRun(_)
DigitRun(s) ==
    IF s # << >> /\ IsDigit(Head(s)) THEN << Head(s) >> \o DigitRun(Tail(s))
    ELSE << >>

After(s, n) == SubSeq(s, n + 1, Len(s))

\* The decimal number a digit run denotes, or cap when it is larger.
RECURSIVE NumberUpTo(_, _)
NumberUpTo(run, cap) ==
    IF run = << >> THEN 0
    ELSE LET front == NumberUpTo(SubSeq(run, 1, Len(run) - 1), cap)
             last  == (CHOOSE n \in 1..Len(Digits) : Digits[n] = run[Len(run)]) - 1
         IN  Min(front * 10 + last, cap)

\* The digit run denotes a number of at most usize::MAX.
FitsUsize(run) ==
    LET d == StripZeros(run) IN
    \/ Len(d) < Len(UsizeMaxDigits)
    \/ Len(d) = Len(UsizeMaxDigits) /\ ~ VecLess(UsizeMaxDigits, d)

FromBytes == origin.kind # "value"
Decoded   == result.status # "None"
IsOk      == result.status = "Ok"
IsErr(e)  == result.status = "Err" /\ result.val = e

\* Some key of the entries is smaller than the key before it.
HasDescent(entries) ==
    \E n \in 1..(Len(entries) - 1) : VecLess(entries[n + 1][1], entries[n][1])

\* C1: decoding a well-formed document with ascending dict keys and encoding
\* the resulting value yields exactly the bytes of the document.
C1_RoundTrip ==
    (origin.kind = "document" /\ origin.tail = << >> /\ pc = "done")
        => (IsOk /\ reserialized = document)

\* C2: decoding the bytes that bencode writes for a value succeeds and yields
\* a value structurally equal to it.
C2_Reencode ==
    (origin.kind = "value" /\ pc = "done")
        => (IsOk /\ result.val = origin.value)

\* C3: after a successful decode the stream holds exactly the bytes that
\* follow the document, the document's closing `e` being consumed.
C3_Position ==
    (origin.kind = "document" /\ IsOk) => peekable = origin.tail

\* C4: a dict whose key sequence has a key smaller than its predecessor fails
\* with OutOfOrderKey whatever the values are; with no such key the decode
\* succeeds and each key maps to the value of its last occurrence.
C4_KeyOrder ==
    (origin.kind = "dict" /\ Decoded) =>
        IF HasDescent(origin.entries) THEN IsErr("OutOfOrderKey")
        ELSE /\ IsOk
             /\ result.val.kind = "Object"
             /\ \A n \in 1..Len(origin.entries) :
                  (n = Len(origin.entries)
                     \/ origin.entries[n + 1][1] # origin.entries[n][1])
                  => \E m \in 1..Len(result.val.val) :
                        result.val.val[m] = origin.entries[n]

\* The input ends inside the payload of a bytestring (s being a prefix of a
\* well-formed document): the short read that the decoder tolerates.
RECURSIVE EndsInPayload(_)
EndsInPayload(s) ==
    IF s = << >> THEN FALSE
    ELSE IF Head(s) = "i"
         THEN LET rest == After(s, Len(DigitRun(Tail(s))) + 1) IN
              EndsInPayload(IF rest = << >> THEN rest ELSE Tail(rest))
    ELSE IF IsDigit(Head(s))
         THEN LET run  == DigitRun(s)
                  rest == After(s, Len(run) + 1)
                  n    == NumberUpTo(run, Len(rest) + 1)
              IN  IF Len(run) = Len(s) THEN FALSE
                  ELSE IF Len(rest) < n THEN TRUE
                  ELSE EndsInPayload(After(rest, n))
    ELSE EndsInPayload(Tail(s))

\* C5: an input that ends while an integer, list or dict is open, or before a
\* bytestring's `:`, fails with Truncated.
C5_Truncation ==
    (origin.kind = "prefix" /\ Decoded /\ ~ EndsInPayload(document))
        => IsErr("Truncated")

\* C6: after `i` and the maximal digit run, end of input is Truncated, a byte
\* other than `e` is InvalidCharacter, and `e` yields Integer of the run.
C6_IntegerProduction ==
    (FromBytes /\ Decoded /\ document # << >> /\ Head(document) = "i") =>
        LET run  == DigitRun(Tail(document))
            rest == After(document, Len(run) + 1)
        IN  IF rest = << >> THEN IsErr("Truncated")
            ELSE IF Head(rest) = "e" THEN IsOk /\ result.val = Integer(run)
            ELSE IsErr("InvalidCharacter")

\* What C7 requires of a decode that meets a value-start position with rest
\* left in the input.
AtValueStart(rest) ==
    /\ rest = << >> => IsErr("Truncated")
    /\ (rest # << >> /\ ~ IsStart(Head(rest))) => IsErr("InvalidCharacter")

\* C7: at a value-start position (top level, first list element, first dict
\* value) the lookahead byte selects the production; any other byte is
\* InvalidCharacter and end of input is Truncated.
C7_Dispatch ==
    (FromBytes /\ Decoded) =>
        /\ AtValueStart(document)
        /\ IsOk => result.val.kind =
                     (CASE Head(document) = "i" -> "Integer"
                        [] Head(document) = "l" -> "Array"
                        [] Head(document) = "d" -> "Object"
                        [] OTHER -> "Bytes")
        /\ (Len(document) >= 2 /\ document[1] = "l" /\ document[2] # "e")
              => AtValueStart(Tail(document))
        /\ \A k \in Keys :
              LET head == << "d" >> \o bencode_bytea(k) IN
              (Len(document) >= Len(head)
                 /\ SubSeq(document, 1, Len(head)) = head)
              => AtValueStart(After(document, Len(head)))

\* `-`, a digit run and `:` at the front of s.
MinusShape(s) ==
    /\ s # << >> /\ Head(s) = "-"
    /\ LET run == DigitRun(Tail(s)) IN
       /\ run # << >>
       /\ Len(s) >= Len(run) + 2
       /\ s[Len(run) + 2] = ":"

\* A letter that starts no production, then `:`.
LetterShape(s) == Len(s) >= 2 /\ s[1] \in PlainLetters /\ s[2] = ":"

\* C8 as stated: an input that starts with `-`, digits and `:` fails with
\* InvalidLength, one that starts with a letter and `:` with InvalidCharacter.
C8_InvalidLength ==
    (FromBytes /\ Decoded) =>
        /\ MinusShape(document) => IsErr("InvalidLength")
        /\ LetterShape(document) => IsErr("InvalidCharacter")

\* C8 amended: an input that starts with `-`, digits and `:` fails with
\* InvalidCharacter, as does one that starts with a letter and `:`.
C8_InvalidCharacter ==
    (FromBytes /\ Decoded) =>
        /\ MinusShape(document) => IsErr("InvalidCharacter")
        /\ LetterShape(document) => IsErr("InvalidCharacter")

C8_Witness ==
    /\ document = << "-", "3", ":", "a", "b", "e" >>
    /\ IsErr("InvalidCharacter")
    /\ peekable = document

\* A decimal length, `:` and the bytes that follow, and nothing else.
LengthShape(s) ==
    LET run == DigitRun(s) IN
    run # << >> /\ Len(s) > Len(run) /\ s[Len(run) + 1] = ":"

\* The decode yields the first min(n, k) bytes after the `:` and leaves the
\* others in the stream.
TakesPayload ==
    LET run  == DigitRun(document)
        rest == After(document, Len(run) + 1)
        m    == NumberUpTo(run, Len(rest))
    IN  /\ IsOk
        /\ result.val = Bytes(SubSeq(rest, 1, m))
        /\ peekable = After(rest, m)

\* C9 as stated: for a decimal length n, `:` and k bytes the decode succeeds
\* with the first min(n, k) bytes and consumes no byte beyond the n-th.
C9_ShortRead ==
    (FromBytes /\ Decoded /\ LengthShape(document)) => TakesPayload

\* C9 amended: the same for every length n of at most usize::MAX; a larger n
\* fails with InvalidLength.
C9_ShortReadUsize ==
    (FromBytes /\ Decoded /\ LengthShape(document)) =>
        IF FitsUsize(DigitRun(document)) THEN TakesPayload
        ELSE IsErr("InvalidLength")

C9_Witness ==
    /\ document = << "3", ":", "a", "b" >>
    /\ IsOk
    /\ result.val = Bytes(<< "a", "b" >>)
    /\ peekable = << >>

\* C10: no assert_eq!, expect or unwrap of the decoder fails, whatever the
\* input: every decode ends in a value or a ParseError.
C10_NoPanic == result.status # "Panic"

C10_Witness ==
    /\ origin.kind = "raw"
    /\ result.status = "Err"
    /\ document = << "l", "d", "0xFF" >>

====
